---- MODULE Spec2Model ----
(***************************************************************************)
(* Model of sklearn_questions.py: the KNearestNeighbors classifier and the *)
(* MonthlySplit cross-validator.                                           *)
(*                                                                         *)
(* Arrays.  A 2-D array is a sequence of rows, a row a sequence of         *)
(* entries.  A 1-D array y is a record [dtype, data].  dtype "int64" holds *)
(* integers, dtype "float64" holds floats written in halves (1 is 0.5,     *)
(* 2 is 1.0), dtype "str" holds strings written as the decimal number      *)
(* whose digits are the character codes (1 is "a", 12 is "ab").            *)
(*                                                                         *)
(* Distances.  euclidian_distance returns sqrt(s) for s a sum of squares.  *)
(* On the integer entries used here s is a small natural number and sqrt   *)
(* is strictly increasing and exact enough to keep distinct s distinct, so *)
(* the float sqrt(s) is written as s: argmin, max and equality, the only   *)
(* operations predict applies to distances, are unchanged by that.         *)
(*                                                                         *)
(* Timestamps.  A datetime64 value is the integer year*100 + month.        *)
(***************************************************************************)
EXTENDS Integers, Sequences, FiniteSets, TLC

VARIABLES
    \* KNearestNeighbors instance
    n_neighbors,      \* constructor parameter
    is_fitted_,       \* whether the instance carries fitted attributes
    n_features_in_,
    examples_,
    labels_,
    classes_,
    ret,              \* outcome of the call in progress, as seen by the caller
    hist,             \* history: whether some fit call has returned / has raised
    \* MonthlySplit instance
    time_col,         \* constructor parameter: "index" or "date"
    splits_,          \* cached split tuples ([set |-> FALSE] before the first count)
    gens,             \* generator objects returned by split, by slot
    out               \* outcome of the MonthlySplit call in progress

knnVars == <<n_neighbors, is_fitted_, n_features_in_, examples_, labels_, classes_, ret,
            hist>>
msVars == <<time_col, splits_, gens, out>>
vars == <<n_neighbors, is_fitted_, n_features_in_, examples_, labels_, classes_, ret,
          hist, time_col, splits_, gens, out>>

(***************************************************************************)
(* Bounds of the explored inputs.                                          *)
(***************************************************************************)
MaxSamples == 2      \* rows of a training set
MaxQueries == 2      \* rows of an array passed to predict or score
MaxK == 2            \* n_neighbors ranges over 1..MaxK
MaxLifeRows == 1     \* rows of the arrays of the lifecycle specification
MaxRows == 3         \* rows of a table passed to MonthlySplit
MaxPairRows == 3     \* rows of a table when two iterations are interleaved

NaN == -1            \* a non-finite array entry
Coord == {0, 1}      \* finite array entries
Features == {1, 2}   \* numbers of columns
IntLabels == {0, 1}
FloatLabels == {1, 2}              \* 0.5 and 1.0, in halves
StrLabels == {1, 12}               \* "a" and "ab"
DTypes == {"int64", "float64", "str"}

LabelsOf(dtype) ==
    CASE dtype = "int64" -> IntLabels
      [] dtype = "float64" -> FloatLabels
      [] OTHER -> StrLabels

\* rows of f columns: every finite row, and one row of non-finite entries
RowsOf(f) == [1..f -> Coord] \cup {[j \in 1..f |-> NaN]}

Arrays2D(maxRows) == UNION {[1..n -> RowsOf(f)] : n \in 1..maxRows, f \in Features}

DataOf(dtype, maxRows) == UNION {[1..n -> LabelsOf(dtype)] : n \in 1..maxRows}

(***************************************************************************)
(* Helpers standing for the numpy primitives the code calls.               *)
(***************************************************************************)
Range(s) == {s[j] : j \in 1..Len(s)}

\* the characters of a string
RECURSIVE Chars(_)
Chars(v) == IF v < 10 THEN <<v>> ELSE Chars(v \div 10) \o <<v % 10>>

\* lexicographic order on strings
StrLess(v, w) ==
    LET a == Chars(v)
        b == Chars(w)
    IN \E k \in 1..(Len(b)) :
           /\ \A j \in 1..(k - 1) : j <= Len(a) /\ a[j] = b[j]
           /\ \/ k = Len(a) + 1
              \/ k <= Len(a) /\ a[k] < b[k]

Less(dtype, a, b) == IF dtype = "str" THEN StrLess(a, b) ELSE a < b

\* np.argmin / np.argmax of a 1-D sequence: the first extremal position
argmin(row) ==
    CHOOSE j \in 1..Len(row) :
        /\ \A h \in 1..Len(row) : row[j] <= row[h]
        /\ \A h \in 1..(j - 1) : row[h] > row[j]

argmax(row) ==
    CHOOSE j \in 1..Len(row) :
        /\ \A h \in 1..Len(row) : row[j] >= row[h]
        /\ \A h \in 1..(j - 1) : row[h] < row[j]

\* np.max of a 2-D matrix
matrix_max(D) ==
    CHOOSE m \in {D[i][j] : i \in 1..Len(D), j \in 1..Len(D[1])} :
        \A i \in 1..Len(D), j \in 1..Len(D[1]) : D[i][j] <= m

\* list.index: the first position holding v
index_of(s, v) == CHOOSE j \in 1..Len(s) : s[j] = v /\ \A h \in 1..(j - 1) : s[h] # v

RECURSIVE SortedSeq(_, _)
SortedSeq(dtype, S) ==
    IF S = {} THEN <<>>
    ELSE LET m == CHOOSE x \in S : \A z \in S : z = x \/ Less(dtype, x, z)
         IN <<m>> \o SortedSeq(dtype, S \ {m})

\* list(np.unique(y)): the distinct values in ascending order
np_unique(y) == SortedSeq(y.dtype, Range(y.data))

(***************************************************************************)
(* Validation helpers of the host framework, as far as fit, predict and    *)
(* score rely on them.                                                     *)
(***************************************************************************)
\* check_array: accepts a 2-D array with at least one row whose entries are finite
check_array(X) ==
    /\ Len(X) >= 1
    /\ \A i \in 1..Len(X) : \A j \in 1..Len(X[i]) : X[i][j] # NaN

\* check_classification_targets: rejects continuous targets (a float that is
\* not a whole number)
check_classification_targets(y) ==
    ~(y.dtype = "float64" /\ \E i \in 1..Len(y.data) : y.data[i] % 2 = 1)

\* check_X_y: check_array on X and the same number of rows in X and y
check_X_y(X, y) == check_array(X) /\ Len(X) = Len(y.data)

\* check_is_fitted: the instance carries attributes ending in "_"
check_is_fitted == is_fitted_

\* validate_data(self, X, reset=False): check_array and the fit-time column count
validate_data_predict(X) == check_array(X) /\ Len(X[1]) = n_features_in_

(***************************************************************************)
(* KNearestNeighbors                                                       *)
(***************************************************************************)
NoArray == [dtype |-> "int64", data |-> <<>>]
NoCall == [op |-> "none", raised |-> "", X |-> <<>>, y |-> NoArray,
           NEIGHBORS |-> <<>>, y_pred |-> <<>>, score |-> <<0, 1>>]

RECURSIVE SumSq(_, _, _)
SumSq(x1, x2, j) ==
    IF j = 0 THEN 0
    ELSE (x1[j] - x2[j]) * (x1[j] - x2[j]) + SumSq(x1, x2, j - 1)

\* np.sqrt(np.sum((x1 - x2)**2)), written as the sum under the root
euclidian_distance(x1, x2) == SumSq(x1, x2, Len(x1))

\* distances between x and each fitted data point
compute_distance(x) ==
    [j \in 1..Len(examples_) |-> euclidian_distance(examples_[j], x)]

distance_matrix(X) == [test_i \in 1..Len(X) |-> compute_distance(X[test_i])]

\* the loop over range(n_neighbors): each pass appends the row-wise argmin
\* and overwrites the selected positions with MAX
RECURSIVE select_neighbors(_, _, _)
select_neighbors(D, MAX, k) ==
    IF k = 0 THEN <<>>
    ELSE LET mins == [row \in 1..Len(D) |-> argmin(D[row])]
             marked == [row \in 1..Len(D) |-> [D[row] EXCEPT ![mins[row]] = MAX]]
         IN <<mins>> \o select_neighbors(marked, MAX, k - 1)

\* NEIGHBORS[neighbor][row] for the rows of X
find_neighbors(X) ==
    LET D == distance_matrix(X)
    IN select_neighbors(D, matrix_max(D), n_neighbors)

\* vote counts of one test example, indexed like classes_
vote_counts(NEIGHBORS, test_example) ==
    [c \in 1..Len(classes_) |->
        Cardinality({neighbor \in 1..Len(NEIGHBORS) :
            index_of(classes_, labels_.data[NEIGHBORS[neighbor][test_example]]) = c})]

\* storing a label into y_pred = np.zeros(n, dtype=type(self.labels_[0])):
\* type(np.str_) gives a one-character string dtype, which keeps the first
\* character; the numeric scalar types keep the value
store_label(dtype, label) == IF dtype = "str" THEN Chars(label)[1] ELSE label

predict_labels(NEIGHBORS, n) ==
    [test_example \in 1..n |->
        store_label(labels_.dtype,
                    classes_[argmax(vote_counts(NEIGHBORS, test_example))])]

\* predict(X): what it raises, the neighbours it records, what it returns
predict(X) ==
    IF ~check_is_fitted
    THEN [raised |-> "NotFittedError", NEIGHBORS |-> <<>>, y_pred |-> <<>>]
    ELSE IF ~validate_data_predict(X)
    THEN [raised |-> "ValueError", NEIGHBORS |-> <<>>, y_pred |-> <<>>]
    ELSE LET NEIGHBORS == find_neighbors(X)
         IN [raised |-> "", NEIGHBORS |-> NEIGHBORS,
             y_pred |-> predict_labels(NEIGHBORS, Len(X))]

\* one element of y_pred == y; a string never equals a number
label_eq(dt1, v1, dt2, v2) ==
    IF dt1 = "str" /\ dt2 = "str" THEN v1 = v2
    ELSE IF dt1 = "str" \/ dt2 = "str" THEN FALSE
    ELSE (IF dt1 = "int64" THEN 2 * v1 ELSE v1) = (IF dt2 = "int64" THEN 2 * v2 ELSE v2)

\* np.sum(y_pred == y) / y.shape[0], as <<numerator, denominator>>
accuracy(y_pred, y) ==
    <<Cardinality({i \in 1..Len(y.data) :
          label_eq(labels_.dtype, y_pred[i], y.dtype, y.data[i])}),
      Len(y.data)>>

fit_accepts(X, y) ==
    check_array(X) /\ check_classification_targets(y) /\ check_X_y(X, y)

\* fit with the target check run after the attributes are assigned
Fit_target_check_last(X, y) ==
    /\ ret.op = "none"
    /\ IF ~check_X_y(X, y)
       THEN /\ ret' = [NoCall EXCEPT !.op = "fit", !.raised = "ValueError"]
            /\ hist' = [hist EXCEPT !.fit_raised = TRUE]
            /\ UNCHANGED <<is_fitted_, n_features_in_, examples_, labels_, classes_>>
       ELSE /\ n_features_in_' = Len(X[1])
            /\ is_fitted_' = TRUE
            /\ examples_' = X
            /\ labels_' = y
            /\ classes_' = np_unique(y)
            /\ IF ~check_classification_targets(y)
               THEN /\ ret' = [NoCall EXCEPT !.op = "fit", !.raised = "ValueError"]
                    /\ hist' = [hist EXCEPT !.fit_raised = TRUE]
               ELSE /\ ret' = [NoCall EXCEPT !.op = "fit", !.X = X, !.y = y]
                    /\ hist' = [hist EXCEPT !.fit_returned = TRUE]
    /\ UNCHANGED <<n_neighbors, msVars>>

Fit(X, y) ==
    /\ ret.op = "none"
    /\ IF ~fit_accepts(X, y)
       THEN /\ ret' = [NoCall EXCEPT !.op = "fit", !.raised = "ValueError"]
            /\ hist' = [hist EXCEPT !.fit_raised = TRUE]
            /\ UNCHANGED <<is_fitted_, n_features_in_, examples_, labels_, classes_>>
       ELSE /\ n_features_in_' = Len(X[1])
            /\ is_fitted_' = TRUE
            /\ examples_' = X
            /\ labels_' = y
            /\ classes_' = np_unique(y)
            /\ ret' = [NoCall EXCEPT !.op = "fit", !.X = X, !.y = y]
            /\ hist' = [hist EXCEPT !.fit_returned = TRUE]
    /\ UNCHANGED <<n_neighbors, msVars>>

Predict(X) ==
    /\ ret.op = "none"
    /\ LET r == predict(X)
       IN ret' = [NoCall EXCEPT !.op = "predict", !.raised = r.raised,
                                !.X = IF r.raised = "" THEN X ELSE <<>>,
                                !.NEIGHBORS = r.NEIGHBORS, !.y_pred = r.y_pred]
    /\ UNCHANGED <<n_neighbors, is_fitted_, n_features_in_, examples_, labels_,
                   classes_, hist, msVars>>

Score(X, y) ==
    /\ ret.op = "none"
    /\ IF ~fit_accepts(X, y)
       THEN ret' = [NoCall EXCEPT !.op = "score", !.raised = "ValueError"]
       ELSE LET r == predict(X)
            IN IF r.raised # ""
               THEN ret' = [NoCall EXCEPT !.op = "score", !.raised = r.raised]
               ELSE ret' = [op |-> "score", raised |-> "", X |-> X, y |-> y,
                            NEIGHBORS |-> r.NEIGHBORS, y_pred |-> r.y_pred,
                            score |-> accuracy(r.y_pred, y)]
    /\ UNCHANGED <<n_neighbors, is_fitted_, n_features_in_, examples_, labels_,
                   classes_, hist, msVars>>

\* the caller takes the outcome of the call; the instance is ready for the next call
Return ==
    /\ ret.op # "none"
    /\ ret' = NoCall
    /\ UNCHANGED <<n_neighbors, is_fitted_, n_features_in_, examples_, labels_,
                   classes_, hist, msVars>>

(***************************************************************************)
(* MonthlySplit                                                            *)
(*                                                                         *)
(* A table X is a record: index (the row labels), date (the column named   *)
(* "date") and, for each of the two, whether its dtype is a datetime.      *)
(* Row positions are counted from 0 as in the code.                        *)
(***************************************************************************)
TimeStamps == {202001, 202002, 202012, 202101, 202102}
IndexLabels == {0, 1}

\* tables indexed by timestamps (any order, repeats allowed), and tables with
\* integer labels (repeats allowed) and a datetime column
Tables(maxRows) ==
    UNION {
        {[index |-> idx, index_datetime |-> TRUE,
          date |-> [r \in 1..n |-> 0], date_datetime |-> FALSE] :
             idx \in [1..n -> TimeStamps]}
        \cup
        {[index |-> idx, index_datetime |-> FALSE,
          date |-> d, date_datetime |-> TRUE] :
             idx \in [1..n -> IndexLabels], d \in [1..n -> TimeStamps]}
        : n \in 1..maxRows}

\* the timestamps of a set in ascending order
RECURSIVE ascending(_)
ascending(S) ==
    IF S = {} THEN <<>>
    ELSE LET m == CHOOSE x \in S : \A z \in S : x <= z
         IN <<m>> \o ascending(S \ {m})

\* tables accepted under time column col whose rows are in strictly
\* increasing time order, with distinct labels
OrderedTables(col, maxRows) ==
    {LET t == ascending(S)
     IN IF col = "index"
        THEN [index |-> t, index_datetime |-> TRUE,
              date |-> [r \in 1..Len(t) |-> 0], date_datetime |-> FALSE]
        ELSE [index |-> [r \in 1..Len(t) |-> r - 1], index_datetime |-> FALSE,
              date |-> t, date_datetime |-> TRUE] :
        S \in {T \in SUBSET TimeStamps : T # {} /\ Cardinality(T) <= maxRows}}

\* X[self.time_col] if self.time_col != 'index' else X.index
time_data_of(X) == IF time_col # "index" THEN X.date ELSE X.index

\* pd.api.types.is_datetime64_any_dtype(time_data)
is_datetime(X) == IF time_col # "index" THEN X.date_datetime ELSE X.index_datetime

\* DatetimeIndex.month and DatetimeIndex.year
month_of(ts) == ts % 100
year_of(ts) == ts \div 100

\* set(zip(month_data, year_data))
unique_pairs_of(X) ==
    LET t == time_data_of(X)
    IN {<<month_of(t[r]), year_of(t[r])>> : r \in 1..Len(t)}

\* the loop body with the December case looking for January of the same year
splits_for_same_year(pair, unique_pairs) ==
    LET month == pair[1]
        year == pair[2]
    IN (IF <<month + 1, year>> \in unique_pairs
        THEN <<(<<month, year, month + 1, year>>)>> ELSE <<>>)
       \o
       (IF month = 12 /\ <<1, year>> \in unique_pairs
        THEN <<(<<month, year, 1, year>>)>> ELSE <<>>)

\* the body of the loop over unique_pairs, for one (month, year)
splits_for(pair, unique_pairs) ==
    LET month == pair[1]
        year == pair[2]
    IN (IF <<month + 1, year>> \in unique_pairs
        THEN <<(<<month, year, month + 1, year>>)>> ELSE <<>>)
       \o
       (IF month = 12 /\ <<1, year + 1>> \in unique_pairs
        THEN <<(<<month, year, 1, year + 1>>)>> ELSE <<>>)

\* the loop over unique_pairs, in the iteration order of the set
RECURSIVE collect_splits(_, _)
collect_splits(todo, unique_pairs) ==
    IF todo = {} THEN <<>>
    ELSE LET pair == CHOOSE q \in todo : TRUE
         IN splits_for(pair, unique_pairs) \o collect_splits(todo \ {pair}, unique_pairs)

\* tuple comparison of Python: lexicographic
RECURSIVE tuple_less_from(_, _, _)
tuple_less_from(a, b, k) ==
    IF k > Len(a) THEN FALSE
    ELSE IF a[k] # b[k] THEN a[k] < b[k]
    ELSE tuple_less_from(a, b, k + 1)

tuple_less(a, b) == tuple_less_from(a, b, 1)

\* insertion of one tuple into an ascending list
RECURSIVE insert_sorted(_, _)
insert_sorted(t, sorted) ==
    IF sorted = <<>> THEN <<t>>
    ELSE IF tuple_less(t, Head(sorted)) THEN <<t>> \o sorted
    ELSE <<Head(sorted)>> \o insert_sorted(t, Tail(sorted))

\* list.sort() on a list of tuples
RECURSIVE list_sort(_)
list_sort(l) == IF l = <<>> THEN <<>> ELSE insert_sorted(Head(l), list_sort(Tail(l)))

\* the list get_n_splits stores in self.splits_
compute_splits(X) ==
    LET unique_pairs == unique_pairs_of(X)
    IN list_sort(collect_splits(unique_pairs, unique_pairs))

\* X.sort_index() / X.sort_values(by=time_col): the rows of X, as positions
\* counted from 1, in ascending time order, rows of equal time in their order
RECURSIVE sorted_rows(_, _)
sorted_rows(t, todo) ==
    IF todo = {} THEN <<>>
    ELSE LET first == CHOOSE r \in todo :
                 \A q \in todo : t[r] < t[q] \/ (t[r] = t[q] /\ r <= q)
         IN <<first>> \o sorted_rows(t, todo \ {first})

\* one (idx_train, idx_test) pair of the loop of split, for a split tuple
split_pair(X, tuple) ==
    LET old_order == X.index
        order == sorted_rows(time_data_of(X), 1..Len(X.index))
        new_order == [k \in 1..Len(order) |-> X.index[order[k]]]
        time_data == [k \in 1..Len(order) |-> time_data_of(X)[order[k]]]
        \* map_new2old[label]: old_order.index(label), counted from 0
        map_new2old(label) == index_of(old_order, label) - 1
        selected(month, year) ==
            SelectSeq([k \in 1..Len(order) |-> k],
                      LAMBDA k : month_of(time_data[k]) = month
                                 /\ year_of(time_data[k]) = year)
        idx(month, year) ==
            LET sel == selected(month, year)
            IN [k \in 1..Len(sel) |-> map_new2old(new_order[sel[k]])]
    IN [tuple |-> tuple,
        idx_train |-> idx(tuple[1], tuple[2]),
        idx_test |-> idx(tuple[3], tuple[4])]

NoTable == [index |-> <<>>, index_datetime |-> FALSE, date |-> <<>>, date_datetime |-> FALSE]
NoGen == [state |-> "none", X |-> NoTable, n_splits |-> 0, i |-> 0,
          raised |-> "", yielded |-> <<>>]
Gens == {1, 2}
NoSplits == [set |-> FALSE, tuples |-> <<>>]
NoOut == [op |-> "none", raised |-> "", X |-> NoTable, count |-> 0, before |-> NoSplits]

\* no MonthlySplit call is in progress
Ready == out.op = "none"

\* get_n_splits(X) called by the user
GetNSplits(X) ==
    /\ Ready
    /\ IF ~is_datetime(X)
       THEN /\ out' = [op |-> "get_n_splits", raised |-> "ValueError", X |-> X,
                       count |-> 0, before |-> splits_]
            /\ UNCHANGED splits_
       ELSE LET split == compute_splits(X)
            IN /\ splits_' = [set |-> TRUE, tuples |-> split]
               /\ out' = [op |-> "get_n_splits", raised |-> "", X |-> X,
                          count |-> Len(split), before |-> splits_]
    /\ UNCHANGED <<time_col, gens, knnVars>>

\* split(X, y): returns a generator; no line of the body has run yet
Split(g, X) ==
    /\ Ready
    /\ gens[g].state = "none"
    /\ gens' = [gens EXCEPT ![g] = [NoGen EXCEPT !.state = "created", !.X = X]]
    /\ UNCHANGED <<time_col, splits_, out, knnVars>>

\* the generator at the head of "for i in range(n_splits)", with the cache as
\* it is now: it stops, raises IndexError on self.splits_[i], or yields
loop_step(gen, n_splits, cache) ==
    IF gen.i >= n_splits
    THEN [gen EXCEPT !.state = "done", !.n_splits = n_splits]
    ELSE IF gen.i >= Len(cache)
    THEN [gen EXCEPT !.state = "raised", !.raised = "IndexError", !.n_splits = n_splits]
    ELSE [gen EXCEPT !.state = "suspended", !.n_splits = n_splits, !.i = gen.i + 1,
                     !.yielded = Append(gen.yielded, split_pair(gen.X, cache[gen.i + 1]))]

\* next() on the generator: the body runs up to its next yield
NextItem(g) ==
    /\ Ready
    /\ gens[g].state \in {"created", "suspended"}
    /\ IF gens[g].state = "created"
       THEN IF ~is_datetime(gens[g].X)
            THEN /\ gens' = [gens EXCEPT ![g].state = "raised", ![g].raised = "ValueError"]
                 /\ UNCHANGED splits_
            ELSE LET split == compute_splits(gens[g].X)
                 IN /\ splits_' = [set |-> TRUE, tuples |-> split]
                    /\ gens' = [gens EXCEPT ![g] = loop_step(gens[g], Len(split), split)]
       ELSE /\ gens' = [gens EXCEPT
                           ![g] = loop_step(gens[g], gens[g].n_splits, splits_.tuples)]
            /\ UNCHANGED splits_
    /\ UNCHANGED <<time_col, out, knnVars>>

\* the caller lets go of a generator that has finished
Drop(g) ==
    /\ Ready
    /\ gens[g].state \in {"done", "raised"}
    /\ gens' = [gens EXCEPT ![g] = NoGen]
    /\ UNCHANGED <<time_col, splits_, out, knnVars>>

\* the caller takes the count returned by get_n_splits
ReturnMS ==
    /\ out.op # "none"
    /\ out' = NoOut
    /\ UNCHANGED <<time_col, splits_, gens, knnVars>>

(***************************************************************************)
(* Initial states and specifications                                       *)
(***************************************************************************)
InitKNN ==
    /\ n_neighbors \in 1..MaxK
    /\ is_fitted_ = FALSE
    /\ n_features_in_ = 0
    /\ examples_ = <<>>
    /\ labels_ = NoArray
    /\ classes_ = <<>>
    /\ ret = NoCall
    /\ hist = [fit_returned |-> FALSE, fit_raised |-> FALSE]

InitMS ==
    /\ time_col \in {"index", "date"}
    /\ splits_ = NoSplits
    /\ gens = [g \in Gens |-> NoGen]
    /\ out = NoOut

\* the MonthlySplit instance while only the classifier is exercised
IdleMS ==
    /\ time_col = "index"
    /\ splits_ = NoSplits
    /\ gens = [g \in Gens |-> NoGen]
    /\ out = NoOut

Init == InitKNN /\ IdleMS

\* the 1-D arrays of at most maxRows labels
Arrays1D(maxRows) ==
    UNION {{[dtype |-> dtype, data |-> data] : data \in DataOf(dtype, maxRows)} :
              dtype \in DTypes}

NextKNN(maxSamples, maxQueries) ==
    \/ /\ ret.op = "none"
       /\ \E X \in Arrays2D(maxSamples), y \in Arrays1D(maxSamples) : Fit(X, y)
    \/ /\ ret.op = "none"
       /\ \E X \in Arrays2D(maxQueries) : Predict(X)
    \/ /\ ret.op = "none"
       /\ \E X \in Arrays2D(maxQueries), y \in Arrays1D(maxQueries) : Score(X, y)
    \/ Return

Next == NextKNN(MaxSamples, MaxQueries)

\* fit, predict and score calls in any order on one instance
Spec == Init /\ [][Next]_vars

NextLifecycle == NextKNN(MaxLifeRows, MaxLifeRows)

\* the same calls on small arrays
SpecLifecycle == Init /\ [][NextLifecycle]_vars

\* the classifier while only MonthlySplit is exercised
IdleKNN ==
    /\ n_neighbors = 1
    /\ is_fitted_ = FALSE
    /\ n_features_in_ = 0
    /\ examples_ = <<>>
    /\ labels_ = NoArray
    /\ classes_ = <<>>
    /\ ret = NoCall
    /\ hist = [fit_returned |-> FALSE, fit_raised |-> FALSE]

InitSplit == IdleKNN /\ InitMS

\* no call in progress and no generator alive
Quiet == Ready /\ \A g \in Gens : gens[g].state = "none"

\* calls one after the other: a split iteration is run to its end before the
\* next call on the instance
SplitInputs == Tables(MaxRows)

NextSplit ==
    \/ Quiet /\ \E X \in SplitInputs : GetNSplits(X)
    \/ Quiet /\ \E X \in SplitInputs : Split(1, X)
    \/ NextItem(1)
    \/ Drop(1)
    \/ ReturnMS

SpecSplit == InitSplit /\ [][NextSplit]_vars

\* two split iterations and get_n_splits calls on one instance, their steps
\* in any order
PairInputs == [col \in {"index", "date"} |-> OrderedTables(col, MaxPairRows)]

NextInterleave ==
    \/ Ready /\ \E X \in PairInputs[time_col] : GetNSplits(X)
    \/ Ready /\ \E g \in Gens : gens[g].state = "none" /\ \E X \in PairInputs[time_col] : Split(g, X)
    \/ \E g \in Gens : NextItem(g)
    \/ ReturnMS

SpecInterleave == InitSplit /\ [][NextInterleave]_vars

(***************************************************************************)
(* Claims about KNearestNeighbors                                          *)
(***************************************************************************)
\* a predict or score call has returned labels
Predicted == ret.op \in {"predict", "score"} /\ ret.raised = ""

\* the example indices recorded for one query row
Recorded(row) == {ret.NEIGHBORS[neighbor][row] : neighbor \in 1..Len(ret.NEIGHBORS)}

\* the k stored examples closest to x, exact ties going to the lowest index
Nearest(x, k) ==
    LET d == [j \in 1..Len(examples_) |-> euclidian_distance(examples_[j], x)]
    IN {j \in 1..Len(examples_) :
           Cardinality({h \in 1..Len(examples_) :
               d[h] < d[j] \/ (d[h] = d[j] /\ h < j)}) < k}

\* C1: with 1 <= n_neighbors <= n_samples, the indices the k-selection loop
\* records for a query row are pairwise distinct and are exactly the
\* n_neighbors nearest stored examples, ties going to the lowest index.
C1_KSelectionExact ==
    (Predicted /\ n_neighbors <= Len(examples_)) =>
        \A row \in 1..Len(ret.X) :
            /\ \A a, b \in 1..n_neighbors :
                   a # b => ret.NEIGHBORS[a][row] # ret.NEIGHBORS[b][row]
            /\ Recorded(row) = Nearest(ret.X[row], n_neighbors)

\* votes of the recorded neighbours of a row for a label
Votes(row, label) ==
    Cardinality({neighbor \in 1..Len(ret.NEIGHBORS) :
        labels_.data[ret.NEIGHBORS[neighbor][row]] = label})

\* C2: predict returns, for every query row, the class with the highest vote
\* count among the recorded neighbours, the first such class in classes_ on a
\* tie; the returned label is a member of classes_.
C2_MajorityVote ==
    Predicted =>
        \A row \in 1..Len(ret.X) :
            \E c \in 1..Len(classes_) :
                /\ ret.y_pred[row] = classes_[c]
                /\ \A e \in 1..Len(classes_) :
                       Votes(row, classes_[e]) <= Votes(row, classes_[c])
                /\ \A e \in 1..(c - 1) :
                       Votes(row, classes_[e]) < Votes(row, classes_[c])

\* training points with the same features carry the same label
ConsistentTraining ==
    \A a, b \in 1..Len(examples_) :
        examples_[a] = examples_[b] => labels_.data[a] = labels_.data[b]

\* C3: with n_neighbors = 1, predict on a training point returns that point's
\* label, and score on the training set is 1.0.  Stated for the training sets
\* in which the label of a training point is determined by its features.
C3_TrainingPointLabel ==
    (n_neighbors = 1 /\ Predicted /\ ConsistentTraining) =>
        /\ \A row \in 1..Len(ret.X) : \A j \in 1..Len(examples_) :
               examples_[j] = ret.X[row] => ret.y_pred[row] = labels_.data[j]
        /\ (/\ ret.op = "score"
            /\ ret.X = examples_
            /\ ret.y.dtype = labels_.dtype
            /\ ret.y.data = labels_.data) =>
               ret.score[1] = ret.score[2]

\* C9: the label returned for a row equals the label predict returns on the
\* one-row input made of that row.
C9_RowIndependent ==
    Predicted =>
        \A row \in 1..Len(ret.X) :
            ret.y_pred[row] = predict(<<ret.X[row]>>).y_pred[1]

\* C4: predict and score return a result only after a fit call has returned;
\* before that, also after a fit that raised, they raise and return nothing;
\* a fitted instance stays fitted.
C4_Lifecycle ==
    /\ [](/\ Predicted => hist.fit_returned
          /\ (ret.op \in {"predict", "score"} /\ ~hist.fit_returned) =>
                 (/\ ret.raised # ""
                  /\ ret.y_pred = <<>>
                  /\ ret.NEIGHBORS = <<>>
                  /\ ret.score = NoCall.score)
          /\ hist.fit_returned => is_fitted_)
    /\ [][is_fitted_ => is_fitted_']_vars

\* predict has raised on an instance whose only fit call so far raised
C4_Witness ==
    /\ ret.op = "predict"
    /\ ret.raised = "NotFittedError"
    /\ hist.fit_raised
    /\ ~hist.fit_returned

(***************************************************************************)
(* Claims about MonthlySplit                                               *)
(***************************************************************************)
\* the row positions of X, counted from 0, whose time falls in (month, year)
PositionsOf(X, month, year) ==
    {r - 1 : r \in {q \in 1..Len(X.index) :
                       /\ month_of(time_data_of(X)[q]) = month
                       /\ year_of(time_data_of(X)[q]) = year}}

\* the list l holds exactly the members of S, each once
ExactlyOnce(l, S) == Range(l) = S /\ Len(l) = Cardinality(S)

\* C5: for every yielded pair, train_indices holds exactly the original row
\* positions whose (month, year) is the tuple's train month/year, each once,
\* and test_indices likewise for the test month/year.
C5_ExactPositions ==
    \A g \in Gens : \A k \in 1..Len(gens[g].yielded) :
        LET e == gens[g].yielded[k]
        IN /\ ExactlyOnce(e.idx_train, PositionsOf(gens[g].X, e.tuple[1], e.tuple[2]))
           /\ ExactlyOnce(e.idx_test, PositionsOf(gens[g].X, e.tuple[3], e.tuple[4]))

\* C10: train_indices and test_indices of a yielded pair share no position.
C10_TrainTestDisjoint ==
    \A g \in Gens : \A k \in 1..Len(gens[g].yielded) :
        Range(gens[g].yielded[k].idx_train) \cap Range(gens[g].yielded[k].idx_test) = {}

\* the (month, year) pairs present in X
PairsIn(X) ==
    {<<time_data_of(X)[r] % 100, time_data_of(X)[r] \div 100>> : r \in 1..Len(X.index)}

\* the calendar month after (month, year)
FollowingMonth(pair) ==
    IF pair[1] = 12 THEN <<1, pair[2] + 1>> ELSE <<pair[1] + 1, pair[2]>>

\* one tuple per pair of X whose following month is in X
AdjacentTuples(X) ==
    {<<pair[1], pair[2], FollowingMonth(pair)[1], FollowingMonth(pair)[2]>> :
        pair \in {q \in PairsIn(X) : FollowingMonth(q) \in PairsIn(X)}}

CacheIsFor(X) ==
    /\ splits_.set
    /\ ExactlyOnce(splits_.tuples, AdjacentTuples(X))

\* C6: after get_n_splits(X) returns, called directly or by the first step of
\* split, splits_ holds exactly one tuple per (month, year) of X whose following
\* calendar month is in X, and the returned count is the length of splits_.
C6_SplitsExact ==
    /\ (out.op = "get_n_splits" /\ out.raised = "") =>
           (CacheIsFor(out.X) /\ out.count = Len(splits_.tuples))
    /\ gens[1].state \in {"suspended", "done"} =>
           (CacheIsFor(gens[1].X) /\ gens[1].n_splits = Len(splits_.tuples))

\* get_n_splits has replaced a different cached list by two tuples, one of
\* them from December to January
C6_Witness ==
    /\ out.op = "get_n_splits"
    /\ out.raised = ""
    /\ out.before.set
    /\ out.before.tuples # splits_.tuples
    /\ out.count = 2
    /\ \E k \in 1..Len(splits_.tuples) : splits_.tuples[k][1] = 12

\* months counted from year 0
MonthNumber(month, year) == year * 12 + month

\* the months of X are successive: no month is missing between two of them
Successive(X) ==
    \A p, q \in PairsIn(X) : \A n \in MonthNumber(p[1], p[2])..MonthNumber(q[1], q[2]) :
        \E r \in PairsIn(X) : MonthNumber(r[1], r[2]) = n

\* C7: for data covering successive months, a finished iteration has yielded
\* one split per pair of successive months, in chronological order of the
\* training month, each predicting on the month after its training month.
C7_Chronological ==
    (gens[1].state = "done" /\ Successive(gens[1].X)) =>
        LET y == gens[1].yielded
        IN /\ Len(y) = Cardinality(PairsIn(gens[1].X)) - 1
           /\ \A k \in 1..Len(y) :
                  <<y[k].tuple[3], y[k].tuple[4]>> =
                      FollowingMonth(<<y[k].tuple[1], y[k].tuple[2]>>)
           /\ \A j, k \in 1..Len(y) :
                  j < k => MonthNumber(y[j].tuple[1], y[j].tuple[2])
                               < MonthNumber(y[k].tuple[1], y[k].tuple[2])

\* what an iteration over X yields when no other call touches the instance
YieldedAlone(X) ==
    LET split == compute_splits(X)
    IN [k \in 1..Len(split) |-> split_pair(X, split[k])]

\* C8: with calls on the instance interleaved, every iteration over an
\* accepted table raises nothing and yields what it yields when run alone.
C8_IterationsIndependent ==
    \A g \in Gens :
        LET alone == YieldedAlone(gens[g].X)
        IN /\ gens[g].state # "raised"
           /\ Len(gens[g].yielded) <= Len(alone)
           /\ gens[g].yielded = SubSeq(alone, 1, Len(gens[g].yielded))
           /\ gens[g].state = "done" => gens[g].yielded = alone

====
